---- MODULE Spec2Model ----
(***************************************************************************)
(* Model of the dual-resource weight meter `WeightInfo` of                 *)
(* primitives/evm/src/lib.rs (frontier): its constructor                   *)
(* new_from_weight_limit, the checked consume operations                   *)
(* try_record_ref_time_or_fail / try_record_proof_size_or_fail and the     *)
(* saturating refunds refund_ref_time / refund_proof_size.                 *)
(*                                                                         *)
(* Option<T> values are sequences: None is << >> and Some(v) is <<v>>.     *)
(* u64 is modelled as the unsigned range 0..MaxU64 (u64::MAX reduced).      *)
(***************************************************************************)
EXTENDS Integers, Sequences, FiniteSets, TLC

\* The largest value of the unsigned counters: u64::MAX = 2^64 - 1 in the
\* source, reduced here to a small counter.  Arithmetic wraps modulo
\* MaxU64 + 1.
MaxU64 == 5

U64 == 0..MaxU64

None == << >>

Some(v) == <<v>>

IsSome(o) == Len(o) = 1

IsNone(o) == Len(o) = 0

Unwrap(o) == o[1]

\* Weight { ref_time, proof_size } as passed to the constructor.
Weight == [ref_time : U64, proof_size : U64]

\* Option<Weight>: the argument of new_from_weight_limit.
WeightLimits == {None} \cup {Some(w) : w \in Weight}

\* u64::checked_add: None on overflow of the counter width.
wrapping_add(a, b) == Some((a + b) % (MaxU64 + 1))

checked_add(a, b) == IF a + b > MaxU64 THEN None ELSE Some(a + b)

\* u64::saturating_sub: floors at 0.
wrapping_sub(a, b) == (a - b) % (MaxU64 + 1)

saturating_sub(a, b) == IF b > a THEN 0 ELSE a - b

\* Result values.
Ok(v) == [tag |-> "Ok", val |-> v]

Err(e) == [tag |-> "Err", err |-> e]

\* WeightInfo::new_from_weight_limit: Result<Option<WeightInfo>, &str>.
new_from_weight_limit_no_none(weight_limit) ==
  IF IsNone(weight_limit)
  THEN Err("must provide Some valid weight limit or None")
  ELSE LET wl == Unwrap(weight_limit) IN
       IF wl.ref_time > 0 /\ wl.proof_size > 0
       THEN Ok(Some([ref_time_limit |-> Some(wl.ref_time),
                     proof_size_limit |-> Some(wl.proof_size),
                     ref_time_usage |-> Some(0),
                     proof_size_usage |-> Some(0)]))
       ELSE IF wl.ref_time > 0
       THEN Ok(Some([ref_time_limit |-> Some(wl.ref_time),
                     proof_size_limit |-> None,
                     ref_time_usage |-> Some(0),
                     proof_size_usage |-> None]))
       ELSE IF wl.proof_size > 0
       THEN Ok(Some([ref_time_limit |-> None,
                     proof_size_limit |-> Some(wl.proof_size),
                     ref_time_usage |-> None,
                     proof_size_usage |-> Some(0)]))
       ELSE Err("must provide Some valid weight limit or None")

new_from_weight_limit_half(weight_limit) ==
  IF IsNone(weight_limit)
  THEN Ok(None)
  ELSE LET wl == Unwrap(weight_limit) IN
       IF wl.ref_time > 0 /\ wl.proof_size > 0
       THEN Ok(Some([ref_time_limit |-> Some(wl.ref_time),
                     proof_size_limit |-> Some(wl.proof_size),
                     ref_time_usage |-> Some(0),
                     proof_size_usage |-> Some(0)]))
       ELSE IF wl.ref_time > 0
       THEN Ok(Some([ref_time_limit |-> Some(wl.ref_time),
                     proof_size_limit |-> None,
                     ref_time_usage |-> Some(0),
                     proof_size_usage |-> Some(0)]))
       ELSE IF wl.proof_size > 0
       THEN Ok(Some([ref_time_limit |-> None,
                     proof_size_limit |-> Some(wl.proof_size),
                     ref_time_usage |-> None,
                     proof_size_usage |-> Some(0)]))
       ELSE Err("must provide Some valid weight limit or None")

new_from_weight_limit_both(weight_limit) ==
  IF IsNone(weight_limit)
  THEN Ok(None)
  ELSE LET wl == Unwrap(weight_limit) IN
       IF wl.ref_time > 0 /\ wl.proof_size > 0
       THEN Ok(Some([ref_time_limit |-> Some(wl.ref_time),
                     proof_size_limit |-> Some(wl.proof_size),
                     ref_time_usage |-> Some(0),
                     proof_size_usage |-> Some(0)]))
       ELSE Err("must provide Some valid weight limit or None")

new_from_weight_limit_swapped(weight_limit) ==
  IF IsNone(weight_limit)
  THEN Ok(None)
  ELSE LET wl == Unwrap(weight_limit) IN
       IF wl.ref_time > 0 /\ wl.proof_size > 0
       THEN Ok(Some([ref_time_limit |-> Some(wl.proof_size),
                     proof_size_limit |-> Some(wl.ref_time),
                     ref_time_usage |-> Some(0),
                     proof_size_usage |-> Some(0)]))
       ELSE IF wl.ref_time > 0
       THEN Ok(Some([ref_time_limit |-> Some(wl.ref_time),
                     proof_size_limit |-> None,
                     ref_time_usage |-> Some(0),
                     proof_size_usage |-> None]))
       ELSE IF wl.proof_size > 0
       THEN Ok(Some([ref_time_limit |-> None,
                     proof_size_limit |-> Some(wl.proof_size),
                     ref_time_usage |-> None,
                     proof_size_usage |-> Some(0)]))
       ELSE Err("must provide Some valid weight limit or None")

new_from_weight_limit_tracks_zero(weight_limit) ==
  IF IsNone(weight_limit)
  THEN Ok(None)
  ELSE LET wl == Unwrap(weight_limit) IN
       IF wl.ref_time > 0 \/ wl.proof_size > 0
       THEN Ok(Some([ref_time_limit |-> Some(wl.ref_time),
                     proof_size_limit |-> Some(wl.proof_size),
                     ref_time_usage |-> Some(0),
                     proof_size_usage |-> Some(0)]))
       ELSE Err("must provide Some valid weight limit or None")

new_from_weight_limit(weight_limit) ==
  IF IsNone(weight_limit)
  THEN Ok(None)
  ELSE LET wl == Unwrap(weight_limit) IN
       IF wl.ref_time > 0 /\ wl.proof_size > 0
       THEN Ok(Some([ref_time_limit |-> Some(wl.ref_time),
                     proof_size_limit |-> Some(wl.proof_size),
                     ref_time_usage |-> Some(0),
                     proof_size_usage |-> Some(0)]))
       ELSE IF wl.ref_time > 0
       THEN Ok(Some([ref_time_limit |-> Some(wl.ref_time),
                     proof_size_limit |-> None,
                     ref_time_usage |-> Some(0),
                     proof_size_usage |-> None]))
       ELSE IF wl.proof_size > 0
       THEN Ok(Some([ref_time_limit |-> None,
                     proof_size_limit |-> Some(wl.proof_size),
                     ref_time_usage |-> None,
                     proof_size_usage |-> Some(0)]))
       ELSE Err("must provide Some valid weight limit or None")

\* WeightInfo::try_consume: Result<u64, ExitError>.
try_consume_off_by_one(cost, limit, usage) ==
  LET sum == checked_add(usage, cost) IN
  IF IsNone(sum) THEN Err("OutOfGas")
  ELSE IF Unwrap(sum) >= limit THEN Err("OutOfGas")
  ELSE Ok(Unwrap(sum))

try_consume_no_limit(cost, limit, usage) ==
  LET sum == checked_add(usage, cost) IN
  IF IsNone(sum) THEN Err("OutOfGas")
  ELSE Ok(Unwrap(sum))

try_consume(cost, limit, usage) ==
  LET sum == checked_add(usage, cost) IN
  IF IsNone(sum) THEN Err("OutOfGas")
  ELSE IF Unwrap(sum) > limit THEN Err("OutOfGas")
  ELSE Ok(Unwrap(sum))

\* WeightInfo::try_record_ref_time_or_fail(&mut self, cost): the pair of
\* the meter after the call and the returned Result<(), ExitError>.
try_record_ref_time_or_fail_partial(self, cost) ==
  IF IsSome(self.ref_time_usage) /\ IsSome(self.ref_time_limit)
  THEN LET ref_time_limit == Unwrap(self.ref_time_limit)
           r == try_consume(cost, ref_time_limit, Unwrap(self.ref_time_usage))
       IN IF r.tag = "Err"
          THEN [self |-> [self EXCEPT !.ref_time_usage = Some(ref_time_limit)],
                ret |-> r]
          ELSE IF r.val > ref_time_limit
          THEN [self |-> self, ret |-> Err("OutOfGas")]
          ELSE [self |-> [self EXCEPT !.ref_time_usage = Some(r.val)],
                ret |-> Ok(<<>>)]
  ELSE [self |-> self, ret |-> Ok(<<>>)]

try_record_ref_time_or_fail(self, cost) ==
  IF IsSome(self.ref_time_usage) /\ IsSome(self.ref_time_limit)
  THEN LET ref_time_limit == Unwrap(self.ref_time_limit)
           r == try_consume(cost, ref_time_limit, Unwrap(self.ref_time_usage))
       IN IF r.tag = "Err"
          THEN [self |-> self, ret |-> r]
          ELSE IF r.val > ref_time_limit
          THEN [self |-> self, ret |-> Err("OutOfGas")]
          ELSE [self |-> [self EXCEPT !.ref_time_usage = Some(r.val)],
                ret |-> Ok(<<>>)]
  ELSE [self |-> self, ret |-> Ok(<<>>)]

\* WeightInfo::try_record_proof_size_or_fail(&mut self, cost).
try_record_proof_size_or_fail_starts_tracking(self, cost) ==
  IF IsSome(self.proof_size_usage) /\ IsSome(self.proof_size_limit)
  THEN LET proof_size_limit == Unwrap(self.proof_size_limit)
           r == try_consume(cost, proof_size_limit, Unwrap(self.proof_size_usage))
       IN IF r.tag = "Err"
          THEN [self |-> self, ret |-> r]
          ELSE IF r.val > proof_size_limit
          THEN [self |-> self, ret |-> Err("OutOfGas")]
          ELSE [self |-> [self EXCEPT !.proof_size_usage = Some(r.val)],
                ret |-> Ok(<<>>)]
  ELSE [self |-> [self EXCEPT !.proof_size_usage = Some(cost)], ret |-> Ok(<<>>)]

try_record_proof_size_or_fail_strict(self, cost) ==
  IF IsSome(self.proof_size_usage) /\ IsSome(self.proof_size_limit)
  THEN LET proof_size_limit == Unwrap(self.proof_size_limit)
           r == try_consume(cost, proof_size_limit, Unwrap(self.proof_size_usage))
       IN IF r.tag = "Err"
          THEN [self |-> self, ret |-> r]
          ELSE IF r.val >= proof_size_limit
          THEN [self |-> self, ret |-> Err("OutOfGas")]
          ELSE [self |-> [self EXCEPT !.proof_size_usage = Some(r.val)],
                ret |-> Ok(<<>>)]
  ELSE [self |-> self, ret |-> Ok(<<>>)]

try_record_proof_size_or_fail(self, cost) ==
  IF IsSome(self.proof_size_usage) /\ IsSome(self.proof_size_limit)
  THEN LET proof_size_limit == Unwrap(self.proof_size_limit)
           r == try_consume(cost, proof_size_limit, Unwrap(self.proof_size_usage))
       IN IF r.tag = "Err"
          THEN [self |-> self, ret |-> r]
          ELSE IF r.val > proof_size_limit
          THEN [self |-> self, ret |-> Err("OutOfGas")]
          ELSE [self |-> [self EXCEPT !.proof_size_usage = Some(r.val)],
                ret |-> Ok(<<>>)]
  ELSE [self |-> self, ret |-> Ok(<<>>)]

\* WeightInfo::refund_proof_size(&mut self, amount): the meter after the call.
refund_proof_size_wrong_field(self, amount) ==
  IF IsSome(self.proof_size_usage) /\ IsSome(self.ref_time_usage)
  THEN [self EXCEPT !.ref_time_usage =
          Some(saturating_sub(Unwrap(self.ref_time_usage), amount))]
  ELSE self

refund_proof_size_writes_limit(self, amount) ==
  IF IsSome(self.proof_size_usage)
  THEN [self EXCEPT !.proof_size_limit =
          Some(saturating_sub(Unwrap(self.proof_size_usage), amount))]
  ELSE self

refund_proof_size(self, amount) ==
  IF IsSome(self.proof_size_usage)
  THEN [self EXCEPT !.proof_size_usage =
          Some(saturating_sub(Unwrap(self.proof_size_usage), amount))]
  ELSE self

\* WeightInfo::refund_ref_time(&mut self, amount): the meter after the call.
refund_ref_time_rejects_over_refund(self, amount) ==
  IF IsSome(self.ref_time_usage)
  THEN IF amount > Unwrap(self.ref_time_usage)
       THEN self
       ELSE [self EXCEPT !.ref_time_usage =
               Some(Unwrap(self.ref_time_usage) - amount)]
  ELSE self

refund_ref_time_banks(self, amount) ==
  IF IsSome(self.ref_time_usage) /\ IsSome(self.ref_time_limit)
  THEN LET usage == Unwrap(self.ref_time_usage)
           limit == Unwrap(self.ref_time_limit) IN
       IF amount > usage
       THEN [self EXCEPT !.ref_time_usage = Some(0),
                         !.ref_time_limit =
                            Some(IF limit + (amount - usage) > MaxU64
                                 THEN MaxU64 ELSE limit + (amount - usage))]
       ELSE [self EXCEPT !.ref_time_usage = Some(usage - amount)]
  ELSE self

refund_ref_time(self, amount) ==
  IF IsSome(self.ref_time_usage)
  THEN [self EXCEPT !.ref_time_usage =
          Some(saturating_sub(Unwrap(self.ref_time_usage), amount))]
  ELSE self

(***************************************************************************)
(* weight_per_gas works on full-width u64 values with the source's         *)
(* constants.  Such a value is a natural number written as its sequence of *)
(* base-10^4 digits ("limbs"), least significant first, without leading    *)
(* zero limbs; zero is the empty sequence.  Big(n) is the value of the     *)
(* integer n.  Every intermediate integer stays below 2^31.                *)
(***************************************************************************)
Base == 10000

BigZero == << >>

RECURSIVE BigNorm(_)
BigNorm(a) ==
  IF Len(a) = 0 THEN a
  ELSE IF a[Len(a)] = 0 THEN BigNorm(SubSeq(a, 1, Len(a) - 1))
  ELSE a

\* The value of an integer below 2^31.
Big(n) == BigNorm(<<n % Base, (n \div Base) % Base, n \div (Base * Base)>>)

\* The element of a singleton set.  { F(y) : y \in {e} } computes e once and
\* applies F to its value, which keeps the evaluation of nested recursive
\* operators shallow.
The(S) == CHOOSE r \in S : TRUE

Limb(a, i) == IF i <= Len(a) THEN a[i] ELSE 0

RECURSIVE BigAddFrom(_, _, _, _)
BigAddFrom(a, b, i, carry) ==
  IF i > Len(a) /\ i > Len(b)
  THEN IF carry = 0 THEN << >> ELSE <<carry>>
  ELSE The({ <<t % Base>> \o BigAddFrom(a, b, i + 1, t \div Base) :
             t \in {Limb(a, i) + Limb(b, i) + carry} })

BigAdd(a, b) == The({ BigAddFrom(x, y, 1, 0) : x \in {a}, y \in {b} })

RECURSIVE BigLtAt(_, _, _)
BigLtAt(a, b, i) ==
  IF i = 0 THEN FALSE
  ELSE IF a[i] # b[i] THEN a[i] < b[i]
  ELSE BigLtAt(a, b, i - 1)

BigLt(a, b) ==
  The({ IF Len(x) # Len(y) THEN Len(x) < Len(y) ELSE BigLtAt(x, y, Len(x)) :
        x \in {a}, y \in {b} })

BigLeq(a, b) == ~BigLt(b, a)

\* a - b for b <= a.
RECURSIVE BigSubFrom(_, _, _, _)
BigSubFrom(a, b, i, borrow) ==
  IF i > Len(a) THEN << >>
  ELSE The({ <<(t + Base) % Base>>
               \o BigSubFrom(a, b, i + 1, IF t < 0 THEN 1 ELSE 0) :
             t \in {a[i] - Limb(b, i) - borrow} })

BigSub(a, b) == The({ BigNorm(BigSubFrom(x, y, 1, 0)) : x \in {a}, y \in {b} })

\* a followed by one more least-significant limb d: a * Base + d.
BigPush(a, d) == BigNorm(<<d>> \o a)

\* a * n for a limb n (0 <= n < Base).
RECURSIVE BigMulLimbFrom(_, _, _, _)
BigMulLimbFrom(a, n, i, carry) ==
  IF i > Len(a)
  THEN IF carry = 0 THEN << >> ELSE <<carry>>
  ELSE The({ <<t % Base>> \o BigMulLimbFrom(a, n, i + 1, t \div Base) :
             t \in {a[i] * n + carry} })

BigMulLimb(a, n) == BigNorm(BigMulLimbFrom(a, n, 1, 0))

\* a * (the number made of the limbs i.. of b).
RECURSIVE BigMulFrom(_, _, _)
BigMulFrom(a, b, i) ==
  IF i > Len(b) THEN BigZero
  ELSE The({ BigAdd(BigMulLimb(a, b[i]), BigPush(hi, 0)) :
             hi \in {BigMulFrom(a, b, i + 1)} })

BigMul(a, b) == The({ BigMulFrom(x, y, 1) : x \in {a}, y \in {b} })

\* The largest limb q in lo..hi with q * b <= a, by bisection (lo * b <= a).
RECURSIVE QuotLimb(_, _, _, _)
QuotLimb(a, b, lo, hi) ==
  IF lo = hi THEN lo
  ELSE The({ IF BigLeq(BigMulLimb(b, mid), a)
             THEN QuotLimb(a, b, mid, hi)
             ELSE QuotLimb(a, b, lo, mid - 1) :
             mid \in {(lo + hi + 1) \div 2} })

\* Quotient and remainder by b of the number made of the limbs i.. of a, by
\* long division: h is the result for the limbs above limb i.
RECURSIVE BigDivModFrom(_, _, _)
BigDivModFrom(a, b, i) ==
  IF i > Len(a) THEN [q |-> BigZero, r |-> BigZero]
  ELSE The({ The({ [q |-> BigPush(h.q, d),
                    r |-> BigSub(BigPush(h.r, a[i]), BigMulLimb(b, d))] :
                   d \in {QuotLimb(BigPush(h.r, a[i]), b, 0, Base - 1)} }) :
             h \in {BigDivModFrom(a, b, i + 1)} })

\* Quotient and remainder of a by b, for b > 0.
BigDivMod(a, b) == The({ BigDivModFrom(x, y, 1) : x \in {a}, y \in {b} })

BigDiv(a, b) == BigDivMod(a, b).q

BigRem(a, b) == BigDivMod(a, b).r

\* 2^64.
TwoPow64 ==
  BigMul(BigMul(Big(65536), Big(65536)), BigMul(Big(65536), Big(65536)))

\* u64::MAX = 18_446_744_073_709_551_615.
U64_MAX == BigSub(TwoPow64, Big(1))

\* frame_support::weights::constants::WEIGHT_REF_TIME_PER_MILLIS = 10^9.
WEIGHT_REF_TIME_PER_MILLIS == Big(1000000000)

\* Perbill::ACCURACY: a Perbill is a number of parts per billion, 0..10^9.
ACCURACY == 1000000000

\* Perbill::from_percent(x).
Perbill_from_percent(x) == (IF x > 100 THEN 100 ELSE x) * (ACCURACY \div 100)

\* u64::saturating_mul.
wrapping_mul(a, b) == BigRem(BigMul(a, b), TwoPow64)

saturating_mul(a, b) ==
  IF BigLt(U64_MAX, BigMul(a, b)) THEN U64_MAX ELSE BigMul(a, b)

\* u64::saturating_div, for a divisor that is not 0: the plain quotient.
saturating_div(a, b) == BigDiv(a, b)

\* sp_arithmetic::per_things::rational_mul_correction for Perbill and u64:
\* (x % denom) * numer / denom, rounded as asked.
rational_mul_correction(x, numer, denom, rounding) ==
  LET rem == BigRem(x, Big(denom))
      rem_mul_upper == BigMul(rem, Big(numer))
      rem_mul_div_inner == BigDiv(rem_mul_upper, Big(denom))
      frac == BigRem(rem_mul_upper, Big(denom))
  IN CASE rounding = "Down" -> rem_mul_div_inner
       [] rounding = "Up" ->
            IF BigLt(BigZero, frac)
            THEN BigAdd(rem_mul_div_inner, Big(1)) ELSE rem_mul_div_inner
       [] rounding = "NearestPrefDown" ->
            IF BigLt(Big(denom \div 2), frac)
            THEN BigAdd(rem_mul_div_inner, Big(1)) ELSE rem_mul_div_inner
       [] rounding = "NearestPrefUp" ->
            IF BigLeq(Big((denom \div 2) + (denom % 2)), frac)
            THEN BigAdd(rem_mul_div_inner, Big(1)) ELSE rem_mul_div_inner

\* sp_arithmetic::per_things::overflow_prune_mul for Perbill and u64.
overflow_prune_mul(x, part, rounding) ==
  BigAdd(BigMul(BigDiv(x, Big(ACCURACY)), Big(part)),
         rational_mul_correction(x, part, ACCURACY, rounding))

\* `txn_ratio * weight_per_block`: impl Mul<u64> for Perbill, which rounds to
\* the nearest whole number (a half rounds down).
Perbill_mul_floor(part, b) == overflow_prune_mul(b, part, "Down")

Perbill_mul(part, b) == overflow_prune_mul(b, part, "NearestPrefDown")

\* What a call of weight_per_gas does: return a value or panic.
Return(v) == [tag |-> "Return", val |-> v]

Panic(msg) == [tag |-> "Panic", msg |-> msg]

\* let weight_per_block = WEIGHT_REF_TIME_PER_MILLIS.saturating_mul(..)
weight_per_block(weight_millis_per_block) ==
  saturating_mul(WEIGHT_REF_TIME_PER_MILLIS, weight_millis_per_block)

\* The outcome for a value of the local weight_per_gas: the assert and the
\* return.
assert_and_return_clamped(weight_per_gas) ==
  IF BigLeq(Big(1), weight_per_gas)
  THEN Return(weight_per_gas)
  ELSE Return(Big(1))

assert_and_return(weight_per_gas) ==
  IF BigLeq(Big(1), weight_per_gas)
  THEN Return(weight_per_gas)
  ELSE Panic("WeightPerGas must greater than or equal with 1")

\* pub fn weight_per_gas(block_gas_limit, txn_ratio, weight_millis_per_block)
weight_per_gas(block_gas_limit, txn_ratio, weight_millis_per_block) ==
  IF block_gas_limit = BigZero
  THEN Panic("attempt to divide by zero")
  ELSE assert_and_return(
         saturating_div(Perbill_mul(txn_ratio, weight_per_block(weight_millis_per_block)),
                        block_gas_limit))

(***************************************************************************)
(* State.                                                                  *)
(*   pc            "start" before construction, "constructed" after        *)
(*   weight_limit  the Option<Weight> given to new_from_weight_limit       *)
(*   weight_info   the Option<WeightInfo> held by the caller               *)
(*   lastOp        the name of the last call made                          *)
(*   arg           the cost / amount argument of the last call             *)
(*   result        what the last call returned                             *)
(*   charged       history, per dimension: Some(sum of the costs of all    *)
(*                 consume calls made on the dimension since construction) *)
(*                 while that sum is within the limit and no refund was    *)
(*                 made on the dimension, None otherwise                   *)
(*   failed        history, per dimension: TRUE once a consume call on the *)
(*                 dimension has returned the out-of-gas error             *)
(*   wpg_in        the arguments of the last weight_per_gas call           *)
(*   wpg_out       what the last weight_per_gas call returned              *)
(***************************************************************************)
VARIABLES pc, weight_limit, weight_info, lastOp, arg, result, charged, failed,
          wpg_in, wpg_out

meter_vars == <<pc, weight_limit, weight_info, lastOp, arg, result, charged, failed>>

wpg_vars == <<wpg_in, wpg_out>>

vars == <<pc, weight_limit, weight_info, lastOp, arg, result, charged, failed,
          wpg_in, wpg_out>>

NoFailure == [ref_time |-> FALSE, proof_size |-> FALSE]

NoCall == [tag |-> "none"]

NoCharge == [ref_time |-> None, proof_size |-> None]

Init ==
  /\ pc = "start"
  /\ weight_limit = None
  /\ weight_info = None
  /\ lastOp = "none"
  /\ arg = 0
  /\ result = "none"
  /\ charged = NoCharge
  /\ failed = NoFailure
  /\ wpg_in = NoCall
  /\ wpg_out = NoCall

\* The sum of the costs charged so far plus cost, while within the limit.
Charge(c, limit, cost) ==
  IF IsSome(c) /\ IsSome(limit) /\ Unwrap(c) + cost <= Unwrap(limit)
  THEN Some(Unwrap(c) + cost)
  ELSE None

\* let weight_info = WeightInfo::new_from_weight_limit(wl)
Construct ==
  /\ pc = "start"
  /\ \E wl \in WeightLimits :
       LET r == new_from_weight_limit(wl) IN
       /\ weight_limit' = wl
       /\ weight_info' = IF r.tag = "Ok" THEN r.val ELSE None
       /\ result' = IF r.tag = "Ok" THEN "Ok" ELSE "ConfigError"
       /\ charged' = IF r.tag = "Ok" /\ IsSome(r.val)
                     THEN [ref_time |-> IF IsSome(Unwrap(r.val).ref_time_limit)
                                        THEN Some(0) ELSE None,
                           proof_size |-> IF IsSome(Unwrap(r.val).proof_size_limit)
                                          THEN Some(0) ELSE None]
                     ELSE NoCharge
  /\ pc' = "constructed"
  /\ lastOp' = "new_from_weight_limit"
  /\ arg' = 0
  /\ UNCHANGED <<failed, wpg_in, wpg_out>>

\* weight_info.try_record_ref_time_or_fail(cost)
TryRecordRefTime ==
  /\ pc = "constructed"
  /\ IsSome(weight_info)
  /\ \E cost \in U64 :
       LET r == try_record_ref_time_or_fail(Unwrap(weight_info), cost) IN
       /\ weight_info' = Some(r.self)
       /\ result' = IF r.ret.tag = "Ok" THEN "Ok" ELSE r.ret.err
       /\ arg' = cost
       /\ charged' = [charged EXCEPT !.ref_time =
            Charge(charged.ref_time, Unwrap(weight_info).ref_time_limit, cost)]
       /\ failed' = [failed EXCEPT !.ref_time = @ \/ r.ret.tag = "Err"]
  /\ lastOp' = "try_record_ref_time_or_fail"
  /\ UNCHANGED <<pc, weight_limit, wpg_in, wpg_out>>

\* weight_info.try_record_proof_size_or_fail(cost)
TryRecordProofSize ==
  /\ pc = "constructed"
  /\ IsSome(weight_info)
  /\ \E cost \in U64 :
       LET r == try_record_proof_size_or_fail(Unwrap(weight_info), cost) IN
       /\ weight_info' = Some(r.self)
       /\ result' = IF r.ret.tag = "Ok" THEN "Ok" ELSE r.ret.err
       /\ arg' = cost
       /\ charged' = [charged EXCEPT !.proof_size =
            Charge(charged.proof_size, Unwrap(weight_info).proof_size_limit, cost)]
       /\ failed' = [failed EXCEPT !.proof_size = @ \/ r.ret.tag = "Err"]
  /\ lastOp' = "try_record_proof_size_or_fail"
  /\ UNCHANGED <<pc, weight_limit, wpg_in, wpg_out>>

\* weight_info.refund_ref_time(amount)
RefundRefTime ==
  /\ pc = "constructed"
  /\ IsSome(weight_info)
  /\ \E amount \in U64 :
       /\ weight_info' = Some(refund_ref_time(Unwrap(weight_info), amount))
       /\ arg' = amount
  /\ result' = "Unit"
  /\ charged' = [charged EXCEPT !.ref_time = None]
  /\ lastOp' = "refund_ref_time"
  /\ UNCHANGED <<pc, weight_limit, failed, wpg_in, wpg_out>>

\* weight_info.refund_proof_size(amount)
RefundProofSize ==
  /\ pc = "constructed"
  /\ IsSome(weight_info)
  /\ \E amount \in U64 :
       /\ weight_info' = Some(refund_proof_size(Unwrap(weight_info), amount))
       /\ arg' = amount
  /\ result' = "Unit"
  /\ charged' = [charged EXCEPT !.proof_size = None]
  /\ lastOp' = "refund_proof_size"
  /\ UNCHANGED <<pc, weight_limit, failed, wpg_in, wpg_out>>

Next ==
  \/ Construct
  \/ TryRecordRefTime
  \/ TryRecordProofSize
  \/ RefundRefTime
  \/ RefundProofSize

Spec == Init /\ [][Next]_vars

\* Arguments tried for weight_per_gas.
GasLimits ==
  { BigZero, Big(1), Big(15000000), Big(75000000),
    BigMul(Big(1500), Big(1000000000)),
    BigAdd(BigDiv(U64_MAX, Big(1000000000)), Big(1)), U64_MAX }

TxnRatios ==
  { 0, 1, 500000000, 600000000, Perbill_from_percent(75), ACCURACY }

\* u64::MAX / 10^9 is the largest number of milliseconds whose weight does
\* not overflow.
MillisPerBlock ==
  { BigZero, Big(1), Big(500), Big(2000),
    BigDiv(U64_MAX, Big(1000000000)),
    BigAdd(BigDiv(U64_MAX, Big(1000000000)), Big(1)), U64_MAX }

\* The chain specification calls
\* weight_per_gas(block_gas_limit, txn_ratio, weight_millis_per_block) once.
WeightPerGas ==
  /\ wpg_in = NoCall
  /\ \E g \in GasLimits, t \in TxnRatios, ms \in MillisPerBlock :
       /\ wpg_in' = [tag |-> "call", block_gas_limit |-> g, txn_ratio |-> t,
                     weight_millis_per_block |-> ms]
       /\ wpg_out' = weight_per_gas(g, t, ms)
  /\ UNCHANGED meter_vars

NextWpg == WeightPerGas

SpecWpg == Init /\ [][NextWpg]_vars

\* The meter held by the caller (only used where weight_info is Some).
meter == Unwrap(weight_info)

HasMeter == IsSome(weight_info)

ConsumeOps == {"try_record_ref_time_or_fail", "try_record_proof_size_or_fail"}

RefundOps == {"refund_ref_time", "refund_proof_size"}

TypeOK ==
  /\ pc \in {"start", "constructed"}
  /\ weight_limit \in WeightLimits
  /\ arg \in U64
  /\ result \in {"none", "Ok", "OutOfGas", "ConfigError", "Unit"}
  /\ lastOp \in {"none", "new_from_weight_limit"} \cup ConsumeOps \cup RefundOps

Max(a, b) == IF a >= b THEN a ELSE b

\* A dimension is tracked when both its fields are Some, untracked when both
\* are None.
Tracked(limit, usage) == IsSome(limit) /\ IsSome(usage)

Untracked(limit, usage) == IsNone(limit) /\ IsNone(usage)

(***************************************************************************)
(* C1: in every state reachable from a constructed meter by consume and    *)
(* refund calls, each tracked dimension has usage <= limit.                *)
(***************************************************************************)
C1_UsageWithinLimit ==
  HasMeter =>
    /\ Tracked(meter.ref_time_limit, meter.ref_time_usage)
         => Unwrap(meter.ref_time_usage) <= Unwrap(meter.ref_time_limit)
    /\ Tracked(meter.proof_size_limit, meter.proof_size_usage)
         => Unwrap(meter.proof_size_usage) <= Unwrap(meter.proof_size_limit)

\* A refund has just acted on a meter whose other dimension is exhausted.
C1_Witness ==
  /\ HasMeter
  /\ lastOp = "refund_ref_time"
  /\ arg = 1
  /\ meter.ref_time_limit = Some(3)
  /\ meter.ref_time_usage = Some(2)
  /\ meter.proof_size_limit = Some(2)
  /\ meter.proof_size_usage = Some(2)

(***************************************************************************)
(* C2: a consume call returns Ok or the out-of-resource error, and one     *)
(* that fails leaves the whole meter (both usages, both limits) as it was. *)
(***************************************************************************)
C2_Step ==
  lastOp' \in ConsumeOps =>
    /\ result' \in {"Ok", "OutOfGas"}
    /\ result' = "OutOfGas" => weight_info' = weight_info

C2_FailedConsumeLeavesMeter == [][C2_Step]_vars

\* A consume on the time dimension has failed with some usage committed before.
C2_Witness ==
  /\ HasMeter
  /\ lastOp = "try_record_ref_time_or_fail"
  /\ result = "OutOfGas"
  /\ meter.ref_time_limit = Some(4)
  /\ meter.ref_time_usage = Some(2)
  /\ arg = 3

(***************************************************************************)
(* C3: on a fresh meter, consume calls whose costs sum to at most the      *)
(* limit all succeed and usage equals the sum of the costs (so a sequence  *)
(* summing to exactly L ends with usage = L); with usage at the limit, a   *)
(* consume of any cost >= 1 fails with the out-of-resource error and       *)
(* leaves the meter as it was, every time it is repeated.                  *)
(***************************************************************************)
C3_Fill ==
  HasMeter =>
    /\ IsSome(charged.ref_time) =>
         /\ meter.ref_time_usage = charged.ref_time
         /\ lastOp = "try_record_ref_time_or_fail" => result = "Ok"
    /\ IsSome(charged.proof_size) =>
         /\ meter.proof_size_usage = charged.proof_size
         /\ lastOp = "try_record_proof_size_or_fail" => result = "Ok"

C3_Reject ==
  /\ ( /\ lastOp' = "try_record_ref_time_or_fail"
       /\ HasMeter
       /\ Tracked(meter.ref_time_limit, meter.ref_time_usage)
       /\ meter.ref_time_usage = meter.ref_time_limit
       /\ arg' >= 1 )
     => result' = "OutOfGas" /\ weight_info' = weight_info
  /\ ( /\ lastOp' = "try_record_proof_size_or_fail"
       /\ HasMeter
       /\ Tracked(meter.proof_size_limit, meter.proof_size_usage)
       /\ meter.proof_size_usage = meter.proof_size_limit
       /\ arg' >= 1 )
     => result' = "OutOfGas" /\ weight_info' = weight_info

C3_ConsumeToLimitThenReject == [][C3_Fill' /\ C3_Reject]_vars

\* One unit past a limit that was reached: the call failed, usage is the limit.
C3_Witness ==
  /\ HasMeter
  /\ lastOp = "try_record_ref_time_or_fail"
  /\ arg = 1
  /\ result = "OutOfGas"
  /\ meter.ref_time_limit = Some(3)
  /\ meter.ref_time_usage = Some(3)

(***************************************************************************)
(* C4: on a tracked dimension, a consume whose usage + cost exceeds the    *)
(* counter's range fails with the out-of-resource error and leaves the     *)
(* meter unchanged, whatever the limit is.                                 *)
(***************************************************************************)
C4_Step ==
  /\ ( /\ lastOp' = "try_record_ref_time_or_fail"
       /\ HasMeter
       /\ Tracked(meter.ref_time_limit, meter.ref_time_usage)
       /\ Unwrap(meter.ref_time_usage) + arg' > MaxU64 )
     => result' = "OutOfGas" /\ weight_info' = weight_info
  /\ ( /\ lastOp' = "try_record_proof_size_or_fail"
       /\ HasMeter
       /\ Tracked(meter.proof_size_limit, meter.proof_size_usage)
       /\ Unwrap(meter.proof_size_usage) + arg' > MaxU64 )
     => result' = "OutOfGas" /\ weight_info' = weight_info

C4_OverflowFails == [][C4_Step]_vars

\* The limit is the largest representable value, usage has reached it and a
\* consume that overflows the counter has failed.
C4_Witness ==
  /\ HasMeter
  /\ lastOp = "try_record_proof_size_or_fail"
  /\ result = "OutOfGas"
  /\ meter.proof_size_limit = Some(MaxU64)
  /\ meter.proof_size_usage = Some(MaxU64)
  /\ arg = 1

(***************************************************************************)
(* C5: on an untracked dimension every consume call, of any cost, returns  *)
(* Ok and leaves usage and limit absent; a refund is a no-op too.          *)
(***************************************************************************)
C5_Step ==
  /\ ( /\ lastOp' = "try_record_ref_time_or_fail"
       /\ HasMeter
       /\ Untracked(meter.ref_time_limit, meter.ref_time_usage) )
     => result' = "Ok" /\ weight_info' = weight_info
  /\ ( /\ lastOp' = "try_record_proof_size_or_fail"
       /\ HasMeter
       /\ Untracked(meter.proof_size_limit, meter.proof_size_usage) )
     => result' = "Ok" /\ weight_info' = weight_info
  /\ ( /\ lastOp' = "refund_ref_time"
       /\ HasMeter
       /\ Untracked(meter.ref_time_limit, meter.ref_time_usage) )
     => weight_info' = weight_info
  /\ ( /\ lastOp' = "refund_proof_size"
       /\ HasMeter
       /\ Untracked(meter.proof_size_limit, meter.proof_size_usage) )
     => weight_info' = weight_info

C5_UntrackedIsNoOp == [][C5_Step]_vars

\* The largest cost was consumed on the untracked proof-size dimension.
C5_Witness ==
  /\ HasMeter
  /\ lastOp = "try_record_proof_size_or_fail"
  /\ arg = MaxU64
  /\ result = "Ok"
  /\ Untracked(meter.proof_size_limit, meter.proof_size_usage)
  /\ meter.ref_time_usage = Some(1)

(***************************************************************************)
(* C6: a refund on a tracked dimension never fails and sets usage to       *)
(* max(usage - amount, 0), changing nothing else.                          *)
(***************************************************************************)
C6_Step ==
  /\ ( /\ lastOp' = "refund_ref_time"
       /\ HasMeter
       /\ IsSome(meter.ref_time_usage) )
     => /\ result' = "Unit"
        /\ weight_info' = Some([meter EXCEPT !.ref_time_usage =
             Some(Max(Unwrap(meter.ref_time_usage) - arg', 0))])
  /\ ( /\ lastOp' = "refund_proof_size"
       /\ HasMeter
       /\ IsSome(meter.proof_size_usage) )
     => /\ result' = "Unit"
        /\ weight_info' = Some([meter EXCEPT !.proof_size_usage =
             Some(Max(Unwrap(meter.proof_size_usage) - arg', 0))])

C6_RefundSaturates == [][C6_Step]_vars

\* More than the limit (so more than any usage) was refunded: usage is 0.
C6_Witness ==
  /\ HasMeter
  /\ lastOp = "refund_ref_time"
  /\ result = "Unit"
  /\ meter.ref_time_limit = Some(3)
  /\ arg = 5
  /\ meter.ref_time_usage = Some(0)

(***************************************************************************)
(* C7: for each dimension, limit and usage are both Some or both None in   *)
(* the constructed meter and in every state reached by consume and refund. *)
(***************************************************************************)
C7_BothOrNeither ==
  HasMeter =>
    /\ IsSome(meter.ref_time_limit) <=> IsSome(meter.ref_time_usage)
    /\ IsSome(meter.proof_size_limit) <=> IsSome(meter.proof_size_usage)

\* A meter tracking only the time dimension, after a call on the other one.
C7_Witness ==
  /\ HasMeter
  /\ lastOp = "refund_proof_size"
  /\ Tracked(meter.ref_time_limit, meter.ref_time_usage)
  /\ Untracked(meter.proof_size_limit, meter.proof_size_usage)

(***************************************************************************)
(* C8 as stated: new_from_weight_limit(None) produces a meter with both    *)
(* dimensions untracked.                                                   *)
(***************************************************************************)
C8_Original ==
  (pc = "constructed" /\ IsNone(weight_limit)) =>
    /\ HasMeter
    /\ Untracked(meter.ref_time_limit, meter.ref_time_usage)
    /\ Untracked(meter.proof_size_limit, meter.proof_size_usage)

(***************************************************************************)
(* C8 amended: new_from_weight_limit(None) succeeds and produces no meter  *)
(* (Ok(None)); no consume call is made on it, so none fails.               *)
(***************************************************************************)
C8_NoLimitNoMeter ==
  (pc = "constructed" /\ IsNone(weight_limit)) =>
    /\ result = "Ok"
    /\ lastOp = "new_from_weight_limit"
    /\ IsNone(weight_info)

\* The constructor was called with None.
C8_Witness == pc = "constructed" /\ IsNone(weight_limit) /\ result = "Ok"

(***************************************************************************)
(* C9: construction from Some limit succeeds iff ref_time or proof_size is *)
(* strictly positive; with both zero it returns the configuration error    *)
(* and no meter.  Only construction returns the configuration error.       *)
(***************************************************************************)
C9_ConfigError ==
  /\ (pc = "constructed" /\ IsSome(weight_limit)) =>
       LET wl == Unwrap(weight_limit) IN
       /\ HasMeter <=> (wl.ref_time > 0 \/ wl.proof_size > 0)
       /\ (result = "ConfigError") <=> (wl.ref_time = 0 /\ wl.proof_size = 0)
  /\ result = "ConfigError" =>
       /\ lastOp = "new_from_weight_limit"
       /\ IsSome(weight_limit)
       /\ ~HasMeter

\* Construction from Some(0, 0) has returned the configuration error.
C9_Witness ==
  /\ pc = "constructed"
  /\ weight_limit = Some([ref_time |-> 0, proof_size |-> 0])
  /\ result = "ConfigError"

(***************************************************************************)
(* C10: right after a successful construction from Some limit, a dimension *)
(* supplied > 0 is tracked with usage 0 and limit the supplied value, and  *)
(* a dimension supplied as 0 has neither limit nor usage.                  *)
(***************************************************************************)
C10_ConstructedFields ==
  (lastOp = "new_from_weight_limit" /\ HasMeter /\ IsSome(weight_limit)) =>
    LET wl == Unwrap(weight_limit) IN
    /\ wl.ref_time > 0 =>
         meter.ref_time_limit = Some(wl.ref_time) /\ meter.ref_time_usage = Some(0)
    /\ wl.ref_time = 0 =>
         Untracked(meter.ref_time_limit, meter.ref_time_usage)
    /\ wl.proof_size > 0 =>
         meter.proof_size_limit = Some(wl.proof_size) /\ meter.proof_size_usage = Some(0)
    /\ wl.proof_size = 0 =>
         Untracked(meter.proof_size_limit, meter.proof_size_usage)

\* Construction from a limit with only the proof-size dimension present.
C10_Witness ==
  /\ lastOp = "new_from_weight_limit"
  /\ HasMeter
  /\ weight_limit = Some([ref_time |-> 0, proof_size |-> 3])

(***************************************************************************)
(* C14: on a tracked dimension a consume of cost c succeeds if and only if *)
(* usage + c <= limit, a success sets usage to usage + c, and a consume of *)
(* cost 0 always succeeds and changes nothing.                             *)
(***************************************************************************)
C14_Step ==
  /\ ( /\ lastOp' = "try_record_ref_time_or_fail"
       /\ HasMeter
       /\ Tracked(meter.ref_time_limit, meter.ref_time_usage) )
     => /\ result' = "Ok" <=>
             Unwrap(meter.ref_time_usage) + arg' <= Unwrap(meter.ref_time_limit)
        /\ result' = "Ok" =>
             weight_info' = Some([meter EXCEPT !.ref_time_usage =
                                    Some(Unwrap(meter.ref_time_usage) + arg')])
        /\ arg' = 0 => result' = "Ok" /\ weight_info' = weight_info
  /\ ( /\ lastOp' = "try_record_proof_size_or_fail"
       /\ HasMeter
       /\ Tracked(meter.proof_size_limit, meter.proof_size_usage) )
     => /\ result' = "Ok" <=>
             Unwrap(meter.proof_size_usage) + arg' <= Unwrap(meter.proof_size_limit)
        /\ result' = "Ok" =>
             weight_info' = Some([meter EXCEPT !.proof_size_usage =
                                    Some(Unwrap(meter.proof_size_usage) + arg')])
        /\ arg' = 0 => result' = "Ok" /\ weight_info' = weight_info

C14_ConsumeSucceedsIffFits == [][C14_Step]_vars

\* A consume of cost 0 has succeeded on a dimension that is at its limit.
C14_Witness ==
  /\ HasMeter
  /\ lastOp = "try_record_proof_size_or_fail"
  /\ arg = 0
  /\ result = "Ok"
  /\ meter.proof_size_limit = Some(2)
  /\ meter.proof_size_usage = Some(2)

(***************************************************************************)
(* C16: a consume or refund on one dimension leaves the other dimension's  *)
(* usage and limit unchanged, and with one dimension exhausted a consume   *)
(* that fits on the other dimension still succeeds.                        *)
(***************************************************************************)
C16_Step ==
  /\ ( lastOp' \in {"try_record_ref_time_or_fail", "refund_ref_time"} /\ HasMeter )
     => /\ HasMeter'
        /\ Unwrap(weight_info').proof_size_usage = meter.proof_size_usage
        /\ Unwrap(weight_info').proof_size_limit = meter.proof_size_limit
  /\ ( lastOp' \in {"try_record_proof_size_or_fail", "refund_proof_size"} /\ HasMeter )
     => /\ HasMeter'
        /\ Unwrap(weight_info').ref_time_usage = meter.ref_time_usage
        /\ Unwrap(weight_info').ref_time_limit = meter.ref_time_limit
  /\ ( /\ lastOp' = "try_record_proof_size_or_fail"
       /\ HasMeter
       /\ Tracked(meter.ref_time_limit, meter.ref_time_usage)
       /\ meter.ref_time_usage = meter.ref_time_limit
       /\ Tracked(meter.proof_size_limit, meter.proof_size_usage)
       /\ Unwrap(meter.proof_size_usage) + arg' <= Unwrap(meter.proof_size_limit) )
     => result' = "Ok"
  /\ ( /\ lastOp' = "try_record_ref_time_or_fail"
       /\ HasMeter
       /\ Tracked(meter.proof_size_limit, meter.proof_size_usage)
       /\ meter.proof_size_usage = meter.proof_size_limit
       /\ Tracked(meter.ref_time_limit, meter.ref_time_usage)
       /\ Unwrap(meter.ref_time_usage) + arg' <= Unwrap(meter.ref_time_limit) )
     => result' = "Ok"

C16_DimensionsIndependent == [][C16_Step]_vars

\* The time dimension is exhausted and has rejected a consume; a consume on
\* the proof-size dimension has then succeeded.
C16_Witness ==
  /\ HasMeter
  /\ failed.ref_time
  /\ meter.ref_time_limit = Some(2)
  /\ meter.ref_time_usage = Some(2)
  /\ lastOp = "try_record_proof_size_or_fail"
  /\ arg = 3
  /\ result = "Ok"
  /\ meter.proof_size_usage = Some(3)

(***************************************************************************)
(* C17: after construction the limits keep the values set by               *)
(* new_from_weight_limit, and no consume or refund call changes a limit or *)
(* turns a tracked dimension untracked or an untracked one tracked.        *)
(***************************************************************************)
C17_LimitsAsConstructed ==
  HasMeter =>
    /\ IsSome(weight_limit)
    /\ meter.ref_time_limit =
         (IF Unwrap(weight_limit).ref_time > 0
          THEN Some(Unwrap(weight_limit).ref_time) ELSE None)
    /\ meter.proof_size_limit =
         (IF Unwrap(weight_limit).proof_size > 0
          THEN Some(Unwrap(weight_limit).proof_size) ELSE None)

C17_Step ==
  HasMeter =>
    /\ HasMeter'
    /\ Unwrap(weight_info').ref_time_limit = meter.ref_time_limit
    /\ Unwrap(weight_info').proof_size_limit = meter.proof_size_limit
    /\ IsSome(Unwrap(weight_info').ref_time_usage) <=> IsSome(meter.ref_time_usage)
    /\ IsSome(Unwrap(weight_info').proof_size_usage) <=> IsSome(meter.proof_size_usage)

C17_LimitsNeverChange == [][C17_LimitsAsConstructed' /\ C17_Step]_vars

\* Consumes and a refund have acted on a meter tracking only proof size.
C17_Witness ==
  /\ HasMeter
  /\ lastOp = "refund_proof_size"
  /\ arg = 1
  /\ weight_limit = Some([ref_time |-> 0, proof_size |-> 4])
  /\ meter.proof_size_usage = Some(2)
  /\ failed.proof_size

(***************************************************************************)
(* C18: a refund sets usage to max(usage - amount, 0) and leaves the limit *)
(* alone (an over-refund is not banked), and in every state, also after a  *)
(* refund and after an earlier failed consume on the dimension, a consume  *)
(* of cost c succeeds exactly when usage + c <= limit.                     *)
(***************************************************************************)
C18_Step ==
  /\ ( /\ lastOp' = "refund_ref_time"
       /\ HasMeter
       /\ Tracked(meter.ref_time_limit, meter.ref_time_usage) )
     => /\ Unwrap(weight_info').ref_time_usage =
             Some(Max(Unwrap(meter.ref_time_usage) - arg', 0))
        /\ Unwrap(weight_info').ref_time_limit = meter.ref_time_limit
  /\ ( /\ lastOp' = "refund_proof_size"
       /\ HasMeter
       /\ Tracked(meter.proof_size_limit, meter.proof_size_usage) )
     => /\ Unwrap(weight_info').proof_size_usage =
             Some(Max(Unwrap(meter.proof_size_usage) - arg', 0))
        /\ Unwrap(weight_info').proof_size_limit = meter.proof_size_limit
  /\ ( /\ lastOp' = "try_record_ref_time_or_fail"
       /\ HasMeter
       /\ Tracked(meter.ref_time_limit, meter.ref_time_usage)
       /\ (failed.ref_time \/ lastOp = "refund_ref_time") )
     => /\ result' = "Ok" <=>
             Unwrap(meter.ref_time_usage) + arg' <= Unwrap(meter.ref_time_limit)
        /\ arg' > Unwrap(meter.ref_time_limit) => result' = "OutOfGas"
  /\ ( /\ lastOp' = "try_record_proof_size_or_fail"
       /\ HasMeter
       /\ Tracked(meter.proof_size_limit, meter.proof_size_usage)
       /\ (failed.proof_size \/ lastOp = "refund_proof_size") )
     => /\ result' = "Ok" <=>
             Unwrap(meter.proof_size_usage) + arg' <= Unwrap(meter.proof_size_limit)
        /\ arg' > Unwrap(meter.proof_size_limit) => result' = "OutOfGas"

C18_RefundGivesBackNoLatch == [][C18_Step]_vars

\* A consume was rejected on the time dimension, and an over-refund has then
\* emptied it.
C18_Witness ==
  /\ HasMeter
  /\ failed.ref_time
  /\ lastOp = "refund_ref_time"
  /\ arg = 5
  /\ meter.ref_time_limit = Some(3)
  /\ meter.ref_time_usage = Some(0)

(***************************************************************************)
(* C19: every tracked dimension has limit >= 1, in the constructed state   *)
(* and in every state reached by consume and refund calls.                 *)
(***************************************************************************)
C19_TrackedLimitPositive ==
  HasMeter =>
    /\ IsSome(meter.ref_time_limit) => Unwrap(meter.ref_time_limit) >= 1
    /\ IsSome(meter.proof_size_limit) => Unwrap(meter.proof_size_limit) >= 1

\* A limit of (0, 1): the time dimension is untracked, not tracked with 0.
C19_Witness ==
  /\ HasMeter
  /\ weight_limit = Some([ref_time |-> 0, proof_size |-> 1])
  /\ IsNone(meter.ref_time_limit)
  /\ meter.proof_size_limit = Some(1)
  /\ lastOp = "try_record_ref_time_or_fail"

\* try_record_*_or_fail without the second `usage > limit` check.
try_record_ref_time_or_fail_without_recheck(self, cost) ==
  IF IsSome(self.ref_time_usage) /\ IsSome(self.ref_time_limit)
  THEN LET r == try_consume(cost, Unwrap(self.ref_time_limit),
                            Unwrap(self.ref_time_usage))
       IN IF r.tag = "Err"
          THEN [self |-> self, ret |-> r]
          ELSE [self |-> [self EXCEPT !.ref_time_usage = Some(r.val)],
                ret |-> Ok(<<>>)]
  ELSE [self |-> self, ret |-> Ok(<<>>)]

try_record_proof_size_or_fail_without_recheck(self, cost) ==
  IF IsSome(self.proof_size_usage) /\ IsSome(self.proof_size_limit)
  THEN LET r == try_consume(cost, Unwrap(self.proof_size_limit),
                            Unwrap(self.proof_size_usage))
       IN IF r.tag = "Err"
          THEN [self |-> self, ret |-> r]
          ELSE [self |-> [self EXCEPT !.proof_size_usage = Some(r.val)],
                ret |-> Ok(<<>>)]
  ELSE [self |-> self, ret |-> Ok(<<>>)]

(***************************************************************************)
(* C20: in every reachable state and for every cost, try_consume returns   *)
(* Ok(u) only with u <= limit, so the second `usage > limit` check of      *)
(* try_record_*_or_fail is never taken and the calls return the same with  *)
(* the check removed.                                                      *)
(***************************************************************************)
C20_SecondCheckUnreachable ==
  HasMeter =>
    \A cost \in U64 :
      /\ Tracked(meter.ref_time_limit, meter.ref_time_usage) =>
           LET r == try_consume(cost, Unwrap(meter.ref_time_limit),
                                Unwrap(meter.ref_time_usage))
           IN r.tag = "Ok" => ~(r.val > Unwrap(meter.ref_time_limit))
      /\ Tracked(meter.proof_size_limit, meter.proof_size_usage) =>
           LET r == try_consume(cost, Unwrap(meter.proof_size_limit),
                                Unwrap(meter.proof_size_usage))
           IN r.tag = "Ok" => ~(r.val > Unwrap(meter.proof_size_limit))
      /\ try_record_ref_time_or_fail(meter, cost)
           = try_record_ref_time_or_fail_without_recheck(meter, cost)
      /\ try_record_proof_size_or_fail(meter, cost)
           = try_record_proof_size_or_fail_without_recheck(meter, cost)

\* try_consume has returned Ok with the new usage exactly at the limit.
C20_Witness ==
  /\ HasMeter
  /\ lastOp = "try_record_ref_time_or_fail"
  /\ result = "Ok"
  /\ arg = 2
  /\ meter.ref_time_limit = Some(3)
  /\ meter.ref_time_usage = Some(3)

\* The arguments of the weight_per_gas call made.
Called == wpg_in.tag = "call"

\* 75% as a Perbill, as in the tests.
Percent75 == Perbill_from_percent(75)

\* The transaction share of the block's weight as the call computes it.
Reserved ==
  Perbill_mul(wpg_in.txn_ratio, weight_per_block(wpg_in.weight_millis_per_block))

(***************************************************************************)
(* C11: with block_gas_limit > 0, weight_per_gas either returns the        *)
(* computed ratio, which is then >= 1 (ratio * limit <= reserved weight <  *)
(* (ratio + 1) * limit), or the ratio is below 1 (reserved weight < limit) *)
(* and the call panics on its assertion; it never returns 0 and never      *)
(* returns a clamped 1.                                                    *)
(***************************************************************************)
C11_NeverReturnsZero ==
  (Called /\ wpg_in.block_gas_limit # BigZero) =>
    \/ /\ wpg_out.tag = "Return"
       /\ BigLeq(Big(1), wpg_out.val)
       /\ BigLeq(BigMul(wpg_out.val, wpg_in.block_gas_limit), Reserved)
       /\ BigLt(Reserved,
                BigMul(BigAdd(wpg_out.val, Big(1)), wpg_in.block_gas_limit))
    \/ /\ wpg_out.tag = "Panic"
       /\ wpg_out.msg = "WeightPerGas must greater than or equal with 1"
       /\ BigLt(Reserved, wpg_in.block_gas_limit)

\* A gas limit too large for the block's weight: the call has panicked.
C11_Witness ==
  /\ Called
  /\ wpg_in.block_gas_limit = U64_MAX
  /\ wpg_in.txn_ratio = Percent75
  /\ wpg_in.weight_millis_per_block = Big(500)
  /\ wpg_out.tag = "Panic"

\* min(10^9 * ms, u64::MAX), the block's time budget.
TimeBudget(ms) ==
  IF BigLt(U64_MAX, BigMul(Big(1000000000), ms))
  THEN U64_MAX ELSE BigMul(Big(1000000000), ms)

\* floor(n / d) and n / d rounded to the nearest integer, a half going down.
Floor(n, d) == BigDivMod(n, d).q

RoundHalfDown(n, d) ==
  IF BigLt(d, BigMulLimb(BigDivMod(n, d).r, 2))
  THEN BigAdd(BigDivMod(n, d).q, Big(1))
  ELSE BigDivMod(n, d).q

\* The three calls of test_weight_per_gas and their results.
TestVectors ==
  /\ ( /\ wpg_in.block_gas_limit = Big(15000000)
       /\ wpg_in.txn_ratio = Percent75
       /\ wpg_in.weight_millis_per_block = Big(500) )
     => wpg_out = Return(Big(25000))
  /\ ( /\ wpg_in.block_gas_limit = Big(75000000)
       /\ wpg_in.txn_ratio = Percent75
       /\ wpg_in.weight_millis_per_block = Big(2000) )
     => wpg_out = Return(Big(20000))
  /\ ( /\ wpg_in.block_gas_limit = BigMul(Big(1500), Big(1000000000))
       /\ wpg_in.txn_ratio = Percent75
       /\ wpg_in.weight_millis_per_block = Big(2000) )
     => wpg_out = Return(Big(1))

(***************************************************************************)
(* C12 as stated: a returned value is                                      *)
(* floor(floor(fraction * budget) / capacity), and the three test calls    *)
(* give 25000, 20000 and 1.                                                *)
(***************************************************************************)
C12_Original ==
  Called =>
    /\ wpg_out.tag = "Return" =>
         wpg_out.val =
           Floor(Floor(BigMul(Big(wpg_in.txn_ratio),
                              TimeBudget(wpg_in.weight_millis_per_block)),
                       Big(ACCURACY)),
                 wpg_in.block_gas_limit)
    /\ TestVectors

(***************************************************************************)
(* C12 amended: a returned value is floor(R / capacity) where R is         *)
(* fraction * budget rounded to the nearest integer (a half rounds down),  *)
(* not floored; R is the floor whenever the budget 10^9 * ms did not       *)
(* saturate, and the three test calls give 25000, 20000 and 1.             *)
(***************************************************************************)
C12_NearestThenFloor ==
  Called =>
    /\ wpg_out.tag = "Return" =>
         /\ wpg_out.val =
              Floor(RoundHalfDown(BigMul(Big(wpg_in.txn_ratio),
                                         TimeBudget(wpg_in.weight_millis_per_block)),
                                  Big(ACCURACY)),
                    wpg_in.block_gas_limit)
         /\ BigLeq(BigMul(Big(1000000000), wpg_in.weight_millis_per_block), U64_MAX)
              => wpg_out.val =
                   Floor(Floor(BigMul(Big(wpg_in.txn_ratio),
                                      TimeBudget(wpg_in.weight_millis_per_block)),
                               Big(ACCURACY)),
                         wpg_in.block_gas_limit)
    /\ TestVectors

\* One billionth of a saturated budget: 18446744073.709... rounds up.
C12_Witness ==
  /\ Called
  /\ wpg_in.block_gas_limit = Big(1)
  /\ wpg_in.txn_ratio = 1
  /\ wpg_in.weight_millis_per_block = U64_MAX
  /\ wpg_out = Return(BigAdd(BigDiv(U64_MAX, Big(1000000000)), Big(1)))

(***************************************************************************)
(* C15: the block's time budget WEIGHT_REF_TIME_PER_MILLIS * ms is the     *)
(* exact product while that fits in a u64 and u64::MAX when it does not,   *)
(* never the product modulo 2^64; with the whole block for transactions    *)
(* and a gas limit of 1, an overflowing call returns u64::MAX.             *)
(***************************************************************************)
C15_BudgetSaturates ==
  Called =>
    LET ms == wpg_in.weight_millis_per_block
        budget == weight_per_block(ms)
        maxMillis == BigDiv(U64_MAX, Big(1000000000))
    IN /\ BigLeq(ms, maxMillis) =>
            BigDivMod(budget, Big(1000000000)) = [q |-> ms, r |-> BigZero]
       /\ BigLt(maxMillis, ms) =>
            /\ budget = U64_MAX
            /\ budget # BigRem(BigMul(Big(1000000000), ms), TwoPow64)
            /\ (wpg_in.txn_ratio = ACCURACY /\ wpg_in.block_gas_limit = Big(1))
                 => wpg_out = Return(U64_MAX)

\* The first number of milliseconds whose weight overflows a u64.
C15_Witness ==
  /\ Called
  /\ wpg_in.weight_millis_per_block =
       BigAdd(BigDiv(U64_MAX, Big(1000000000)), Big(1))
  /\ wpg_in.txn_ratio = ACCURACY
  /\ wpg_in.block_gas_limit = Big(1)
  /\ wpg_out = Return(U64_MAX)

====
